---- MODULE Spec2Model ----
(***************************************************************************)
(* fix-whitespace (src/src/main.rs): a model of the per-file engine.       *)
(*                                                                         *)
(* Text is a sequence of characters; a character is a one-element string,  *)
(* except EAcute, which stands for a code point whose UTF-8 encoding takes *)
(* two bytes (str::len counts bytes, str::chars yields code points).       *)
(*                                                                         *)
(* usize arithmetic: a value of the 64-bit unsigned type is represented by *)
(* the integer congruent to it modulo 2^64 that lies in the range          *)
(* -2^31 .. 2^31 - 1, so the wrapped result 2^64 - 1 is written -1; UGt is *)
(* the unsigned comparison on that representation.  Whether an overflow    *)
(* panics or wraps depends on the build (overflow_checks).                 *)
(***************************************************************************)
EXTENDS Integers, Sequences, FiniteSets, TLC

VARIABLES
    overflow_checks,  \* build profile: TRUE = overflow panics, FALSE = it wraps
    pc,               \* position of the process
    config,           \* the Config in effect
    input,            \* SpecLine: content of the file read
    scan,             \* SpecLine: check_line's result for every line read
    fixed,            \* SpecLine: fix_line's result for every line read
    output,           \* SpecLine: bytes written by the rewrite pass
    rescan,           \* SpecLine: check_file over output
    output2,          \* SpecLine: bytes written by a second rewrite pass
    modeline,         \* Option <String>: what find_modeline returned
    idx,              \* main: the argument do_file is called with
    disk,             \* the file at each argument's path: bytes and mode
    tmp,              \* the file at "<path>.tmp", or NoFile
    check_result,     \* do_file: what check_file returned
    metadata,         \* do_file: the mode read from the original
    error,            \* per argument: the "Error ..." message written
    history,          \* per argument: what do_file has done so far
    orig,             \* the bytes and modes before the process started
    underflow         \* a usize subtraction went below zero

lineVars == <<scan, fixed, output, rescan, output2>>

fileVars == <<idx, disk, tmp, check_result, metadata, error, history, orig, underflow>>

vars == <<overflow_checks, pc, config, input, lineVars, modeline, fileVars>>

----------------------------------------------------------------------------
(* Characters and strings                                                  *)

TAB == "\t"
SP == " "
CR == "\r"
LF == "\n"
EAcute == "U+00E9"

\* char::is_whitespace, on the characters of the model
is_whitespace(c) == c \in {TAB, SP, CR, LF}

\* bytes of the UTF-8 encoding of one character
len_utf8(c) == IF c = EAcute THEN 2 ELSE 1

\* str::len: the length in bytes
RECURSIVE StrLen(_)
StrLen(s) == IF s = <<>> THEN 0 ELSE len_utf8(Head(s)) + StrLen(Tail(s))

\* str::contains ('\t')
contains_tab(s) == \E i \in 1..Len(s) : s[i] = TAB

\* str::matches ('\t').count ()
RECURSIVE count_tabs(_)
count_tabs(s) ==
    IF s = <<>> THEN 0
    ELSE (IF Head(s) = TAB THEN 1 ELSE 0) + count_tabs(Tail(s))

\* chars ().skip_while (== '\t').any (== '\t')
tabs_after_other(s) ==
    \E i \in 1..Len(s) : \E j \in 1..Len(s) :
        i < j /\ s[i] # TAB /\ s[j] = TAB

\* str::ends_with ('\r') and str::ends_with ("\r\n")
ends_with_cr(s) == Len(s) >= 1 /\ s[Len(s)] = CR

ends_with_crlf(s) == Len(s) >= 2 /\ s[Len(s) - 1] = CR /\ s[Len(s)] = LF

\* s without its last n characters (n calls of next_back on chars ())
DropLast(s, n) == IF Len(s) <= n THEN <<>> ELSE SubSeq(s, 1, Len(s) - n)

\* unsigned a > b, b a small non-negative number
UGt(a, b) == IF a < 0 THEN TRUE ELSE a > b

----------------------------------------------------------------------------
(* Config                                                                  *)

DEFAULT_TAB_SIZE == 4
DEFAULT_LINE_LENGTH == 80

DEFAULT_CONFIG ==
    [expand_tabs |-> FALSE,
     tab_size |-> DEFAULT_TAB_SIZE,
     line_length |-> DEFAULT_LINE_LENGTH]

----------------------------------------------------------------------------
(* find_modeline                                                           *)

None == [some |-> FALSE, text |-> <<>>]
Some(t) == [some |-> TRUE, text |-> t]

\* BufRead::lines: the lines without their "\n" or "\r\n"
RECURSIVE lines(_, _)
lines(s, cur) ==
    IF s = <<>> THEN (IF cur = <<>> THEN <<>> ELSE <<cur>>)
    ELSE IF Head(s) = LF
         THEN <<(IF ends_with_cr(cur) THEN DropLast(cur, 1) ELSE cur)>>
                  \o lines(Tail(s), <<>>)
         ELSE lines(Tail(s), Append(cur, Head(s)))

starts_with_at(s, i, w) ==
    i + Len(w) - 1 <= Len(s) /\ SubSeq(s, i, i + Len(w) - 1) = w

\* the words of the alternation (vim|vi|ex), in its order
Keywords == << <<"v", "i", "m">>, <<"v", "i">>, <<"e", "x">> >>

\* " (vim|vi|ex): (.+)" matched at position i: where group 2 starts, or 0
match_at(s, i) ==
    LET fits(k) ==
            /\ starts_with_at(s, i, <<SP>> \o Keywords[k] \o <<":", SP>>)
            /\ i + Len(Keywords[k]) + 3 <= Len(s)
    IN  IF \E k \in 1..Len(Keywords) : fits(k)
        THEN i + Len(Keywords[CHOOSE k \in 1..Len(Keywords) : fits(k)]) + 3
        ELSE 0

\* Regex::captures (...).at (2): group 2 of the leftmost match, if any
captures(s) ==
    LET hits == {i \in 1..Len(s) : match_at(s, i) > 0}
    IN  IF hits = {} THEN None
        ELSE LET i == CHOOSE i \in hits : \A j \in hits : i <= j
             IN  Some(SubSeq(s, match_at(s, i), Len(s)))

RECURSIVE scan_modeline_first(_, _)
scan_modeline_first(ls, found) ==
    IF ls = <<>> THEN found
    ELSE scan_modeline_first(Tail(ls),
             IF captures(Head(ls)).some /\ ~found.some THEN captures(Head(ls))
             ELSE found)

\* the loop of lines 84-111: every matching line overwrites modeline
RECURSIVE scan_modeline(_, _)
scan_modeline(ls, found) ==
    IF ls = <<>> THEN found
    ELSE scan_modeline(Tail(ls),
                       IF captures(Head(ls)).some THEN captures(Head(ls)) ELSE found)

find_modeline(content) == scan_modeline(lines(content, <<>>), None)

----------------------------------------------------------------------------
(* config_from_modeline                                                    *)

\* str::split (' '): one part more than there are spaces
RECURSIVE split(_, _)
split(s, cur) ==
    IF s = <<>> THEN <<cur>>
    ELSE IF Head(s) = SP THEN <<cur>> \o split(Tail(s), <<>>)
    ELSE split(Tail(s), Append(cur, Head(s)))

Digits == <<"0", "1", "2", "3", "4", "5", "6", "7", "8", "9">>

digit(c) == (CHOOSE d \in 1..Len(Digits) : Digits[d] = c) - 1

is_digit(c) == \E d \in 1..Len(Digits) : Digits[d] = c

RECURSIVE decimal(_, _)
decimal(s, acc) ==
    IF s = <<>> THEN acc ELSE decimal(Tail(s), acc * Len(Digits) + digit(Head(s)))

\* str::parse::<usize> on the texts of the model (short digit strings):
\* Ok (n) or Err
parse_usize(s) ==
    IF s # <<>> /\ \A i \in 1..Len(s) : is_digit(s[i])
    THEN [ok |-> TRUE, value |-> decimal(s, 0)]
    ELSE [ok |-> FALSE, value |-> 0]

\* the characters of s from byte offset n on; a panic when n is past the
\* end or inside a character
RECURSIVE slice_from(_, _)
slice_from(s, n) ==
    IF n = 0 THEN [panic |-> FALSE, text |-> s]
    ELSE IF s = <<>> \/ len_utf8(Head(s)) > n THEN [panic |-> TRUE, text |-> <<>>]
    ELSE slice_from(Tail(s), n - len_utf8(Head(s)))

TS_PREFIX == <<"t", "s", "=">>

\* the 3 of modeline [3 .. ]
TS_VALUE_OFFSET == 3

\* the body of the loop of lines 124-153 for one part of the modeline
apply_part(cfg, m, part) ==
    LET c1 == IF part = <<"e", "t">> THEN [cfg EXCEPT !.expand_tabs = TRUE] ELSE cfg
        c2 == IF part = <<"n", "o", "e", "t">>
              THEN [c1 EXCEPT !.expand_tabs = FALSE] ELSE c1
        rest == slice_from(m, TS_VALUE_OFFSET)
        n == parse_usize(rest.text)
    IN  IF ~starts_with_at(part, 1, TS_PREFIX) THEN [panic |-> FALSE, config |-> c2]
        ELSE IF rest.panic THEN [panic |-> TRUE, config |-> c2]
        ELSE IF n.ok THEN [panic |-> FALSE, config |-> [c2 EXCEPT !.tab_size = n.value]]
        ELSE [panic |-> FALSE, config |-> c2]

RECURSIVE apply_parts(_, _, _)
apply_parts(cfg, m, parts) ==
    IF parts = <<>> THEN [panic |-> FALSE, config |-> cfg]
    ELSE LET r == apply_part(cfg, m, Head(parts))
         IN  IF r.panic THEN r ELSE apply_parts(r.config, m, Tail(parts))

config_from_modeline(m) == apply_parts(DEFAULT_CONFIG, m, split(m, <<>>))

----------------------------------------------------------------------------
(* check_line                                                              *)

\* len + tabs * (tab_size - 1) - 1 in usize: the value, whether a step went
\* below zero, and whether the build panics there
line_len(cfg, s, checks) ==
    LET len == StrLen(s)
        tabs == count_tabs(s)
        under == cfg.tab_size = 0 \/ len + tabs * (cfg.tab_size - 1) = 0
    IN  [value |-> len + tabs * (cfg.tab_size - 1) - 1,
         underflow |-> under,
         panic |-> under /\ checks]

\* the trailing-whitespace rule of check_line (lines 198-242); panic is an
\* unwrap of None: the byte length says there are more characters than
\* there are
check_trailing(s) ==
    LET n == Len(s)
        last == s[n]
        second == s[n - 1]
        third == s[n - 2]
    IN  IF StrLen(s) <= 1 THEN [hit |-> FALSE, panic |-> FALSE]
        ELSE IF n < 2 THEN [hit |-> FALSE, panic |-> TRUE]
        ELSE IF StrLen(s) > 2 THEN
            IF n < 3 THEN [hit |-> FALSE, panic |-> TRUE]
            ELSE [hit |-> \/ (last = LF /\ second = CR /\ is_whitespace(third))
                          \/ (last = LF /\ is_whitespace(second))
                          \/ (last = CR /\ is_whitespace(second)),
                  panic |-> FALSE]
        ELSE [hit |-> \/ (last = LF /\ is_whitespace(second))
                      \/ (last = CR /\ is_whitespace(second)),
              panic |-> FALSE]

B2N(b) == IF b THEN 1 ELSE 0

\* The rules of check_line in source order; a panic ends the process at the
\* first rule that panics.
check_line(cfg, s, checks) ==
    LET r_expand == cfg.expand_tabs /\ contains_tab(s)
        r_tabs == ~cfg.expand_tabs /\ tabs_after_other(s)
        r_mac == ends_with_cr(s)
        r_windows == ends_with_crlf(s)
        trailing == check_trailing(s)
        ll == line_len(cfg, s, checks)
        r_long == UGt(ll.value, cfg.line_length)
    IN  [fixable_errors |-> B2N(r_expand) + B2N(r_mac) + B2N(r_windows)
                              + B2N(trailing.hit),
         unfixable_errors |-> B2N(r_tabs) + B2N(r_long),
         expand |-> r_expand,
         tabs |-> r_tabs,
         mac |-> r_mac,
         windows |-> r_windows,
         trailing |-> trailing.hit,
         long |-> r_long,
         underflow |-> ~trailing.panic /\ ll.underflow,
         panic |-> trailing.panic \/ ll.panic]

----------------------------------------------------------------------------
(* check_file / fix_file line reader                                       *)

\* BufRead::read_line repeatedly: every line keeps its "\n"; the last one
\* may have none; there is no empty line
RECURSIVE read_lines(_, _)
read_lines(s, cur) ==
    IF s = <<>> THEN (IF cur = <<>> THEN <<>> ELSE <<cur>>)
    ELSE IF Head(s) = LF THEN <<Append(cur, LF)>> \o read_lines(Tail(s), <<>>)
    ELSE read_lines(Tail(s), Append(cur, Head(s)))

\* check_file: the per-line results, in file order (lines 275-304)
check_lines(cfg, content, checks) ==
    LET ls == read_lines(content, <<>>)
    IN  [i \in 1..Len(ls) |-> check_line(cfg, ls[i], checks)]

\* a line went below zero before the process ended
Underflowed(rs) ==
    \E i \in 1..Len(rs) :
        rs[i].underflow /\ \A j \in 1..(i - 1) : ~rs[j].panic

RECURSIVE SumField(_, _)
SumField(rs, f) == IF rs = <<>> THEN 0 ELSE Head(rs)[f] + SumField(Tail(rs), f)

\* CheckResult += over the lines; the process panics if a line does
check_file(cfg, content, checks) ==
    LET rs == check_lines(cfg, content, checks)
    IN  [fixable_errors |-> SumField(rs, "fixable_errors"),
         unfixable_errors |-> SumField(rs, "unfixable_errors"),
         underflow |-> Underflowed(rs),
         panic |-> \E i \in 1..Len(rs) : rs[i].panic]

----------------------------------------------------------------------------
(* fix_line                                                                *)

fix_mac_skipped(s) == s

\* lines 337-359
fix_mac(s) == IF ends_with_cr(s) THEN Append(DropLast(s, 1), LF) ELSE s

\* lines 361-384
fix_windows(s) == IF ends_with_crlf(s) THEN Append(DropLast(s, 2), LF) ELSE s

\* str::replace ("\t", tab_size spaces)
RECURSIVE expand_tabs(_, _)
expand_tabs(s, n) ==
    IF s = <<>> THEN <<>>
    ELSE (IF Head(s) = TAB THEN [i \in 1..n |-> SP] ELSE <<Head(s)>>)
             \o expand_tabs(Tail(s), n)

strip_end_once(s) ==
    IF s = <<>> THEN <<LF>>
    ELSE IF is_whitespace(s[Len(s)]) THEN Append(DropLast(s, 1), LF)
    ELSE Append(s, LF)

\* the loop of lines 456-488 over the characters before the last one
RECURSIVE strip_end(_)
strip_end(s) ==
    IF s = <<>> THEN <<LF>>
    ELSE IF is_whitespace(s[Len(s)]) THEN strip_end(DropLast(s, 1))
    ELSE Append(s, LF)

\* lines 429-497: the test (an unwrap of the character before the last) and
\* the rewrite
fix_trailing(s) ==
    IF StrLen(s) <= 1 THEN [hit |-> FALSE, panic |-> FALSE, line |-> s]
    ELSE IF Len(s) < 2 THEN [hit |-> FALSE, panic |-> TRUE, line |-> s]
    ELSE IF is_whitespace(s[Len(s) - 1])
         THEN [hit |-> TRUE, panic |-> FALSE, line |-> strip_end(DropLast(s, 1))]
         ELSE [hit |-> FALSE, panic |-> FALSE, line |-> s]

Tag(b, t) == IF b THEN <<t>> ELSE <<>>

\* fix_line: the line returned, the tags in the order pushed, whether the
\* message of line 515 is written, and the panics on the way
fix_line(cfg, s, checks) ==
    LET cr == check_line(cfg, s, checks)
        m1 == fix_mac(s)
        m2 == fix_windows(m1)
        do_expand == cfg.expand_tabs /\ contains_tab(m2)
        m3 == IF do_expand THEN expand_tabs(m2, cfg.tab_size) ELSE m2
        do_tabs == ~cfg.expand_tabs /\ tabs_after_other(m3)
        tr == fix_trailing(m3)
        m4 == tr.line
        ll == line_len(cfg, m4, checks)
        do_long == UGt(ll.value, cfg.line_length)
    IN  IF cr.panic
        THEN [line |-> s, tags |-> <<>>, message |-> FALSE,
              underflow |-> cr.underflow, panic |-> TRUE]
        ELSE IF cr.fixable_errors = 0 /\ cr.unfixable_errors = 0
        THEN [line |-> s, tags |-> <<>>, message |-> FALSE,
              underflow |-> cr.underflow, panic |-> FALSE]
        ELSE IF tr.panic
        THEN [line |-> s, tags |-> <<>>, message |-> FALSE,
              underflow |-> cr.underflow, panic |-> TRUE]
        ELSE [line |-> m4,
              tags |-> Tag(m1 # s, "fixed mac line ending")
                       \o Tag(m2 # m1, "fixed windows line ending")
                       \o Tag(do_expand, "expanded tabs")
                       \o Tag(do_tabs, "tabs after other characters")
                       \o Tag(tr.hit, "removed whitespace from end")
                       \o Tag(do_long, "line too long"),
              message |-> ~ll.panic,
              underflow |-> cr.underflow \/ ll.underflow,
              panic |-> ll.panic]

\* fix_file: fix_line over the lines, in file order (lines 544-591)
fix_lines(cfg, content, checks) ==
    LET ls == read_lines(content, <<>>)
    IN  [i \in 1..Len(ls) |-> fix_line(cfg, ls[i], checks)]

RECURSIVE Concat(_)
Concat(rs) == IF rs = <<>> THEN <<>> ELSE Head(rs).line \o Concat(Tail(rs))

\* the bytes written by fix_file when no read or write fails
fix_file(cfg, content, checks) ==
    LET rs == fix_lines(cfg, content, checks)
    IN  [bytes |-> Concat(rs),
         underflow |-> Underflowed(rs),
         panic |-> \E i \in 1..Len(rs) : rs[i].panic]

----------------------------------------------------------------------------
(* SpecLine: the scan and the rewrite pass applied to every small file     *)
(* under every small Config                                                *)

MaxFileLen == 3
MaxTabSize == 2
MaxLineLength == 2

Alphabet == {TAB, SP, CR, LF, "a", EAcute}

Texts(n) == UNION {[1..k -> Alphabet] : k \in 0..n}

\* tab_size 0 comes out of config_from_modeline only for the modeline "ts=0",
\* which leaves expand_tabs false; a Config with tab_size 0 and expand_tabs
\* is no value the program can hold
Configs ==
    {c \in [expand_tabs : BOOLEAN, tab_size : 0..MaxTabSize,
            line_length : 1..MaxLineLength] :
        c.tab_size = 0 => ~c.expand_tabs}

NoText == <<"-">>
NoResult == [fixable_errors |-> -1, unfixable_errors |-> -1]

\* do_file is not running: the variables of Spec keep these values
NoFiles ==
    /\ idx = 0
    /\ disk = <<>>
    /\ tmp = <<>>
    /\ check_result = NoResult
    /\ metadata = "-"
    /\ error = <<>>
    /\ history = <<>>
    /\ orig = <<>>
    /\ underflow = FALSE

InitLine ==
    /\ overflow_checks \in BOOLEAN
    /\ config \in Configs
    /\ input \in Texts(MaxFileLen)
    /\ pc = "scan"
    /\ scan = <<>>
    /\ fixed = <<>>
    /\ output = NoText
    /\ rescan = NoResult
    /\ output2 = NoText
    /\ modeline = None
    /\ NoFiles

\* check_file over the input (the second pass of do_file)
Scan ==
    /\ pc = "scan"
    /\ LET r == check_file(config, input, overflow_checks)
       IN  IF r.panic
           THEN pc' = "panicked" /\ scan' = scan
           ELSE pc' = "fix" /\ scan' = check_lines(config, input, overflow_checks)
    /\ UNCHANGED <<overflow_checks, config, input, fixed, output, rescan, output2, modeline, fileVars>>

\* fix_file over the input into a sink that keeps the bytes
Fix ==
    /\ pc = "fix"
    /\ LET r == fix_file(config, input, overflow_checks)
       IN  IF r.panic
           THEN pc' = "panicked" /\ fixed' = fixed /\ output' = output
           ELSE /\ pc' = "rescan"
                /\ fixed' = fix_lines(config, input, overflow_checks)
                /\ output' = r.bytes
    /\ UNCHANGED <<overflow_checks, config, input, scan, rescan, output2, modeline, fileVars>>

\* check_file over the bytes written
Rescan ==
    /\ pc = "rescan"
    /\ LET r == check_file(config, output, overflow_checks)
       IN  IF r.panic
           THEN pc' = "panicked" /\ rescan' = rescan
           ELSE /\ pc' = "refix"
                /\ rescan' = [fixable_errors |-> r.fixable_errors,
                              unfixable_errors |-> r.unfixable_errors]
    /\ UNCHANGED <<overflow_checks, config, input, scan, fixed, output, output2, modeline, fileVars>>

\* fix_file over the bytes written
Refix ==
    /\ pc = "refix"
    /\ LET r == fix_file(config, output, overflow_checks)
       IN  IF r.panic
           THEN pc' = "panicked" /\ output2' = output2
           ELSE pc' = "done" /\ output2' = r.bytes
    /\ UNCHANGED <<overflow_checks, config, input, scan, fixed, output, rescan, modeline, fileVars>>

NextLine == Scan \/ Fix \/ Rescan \/ Refix

SpecLine == InitLine /\ [][NextLine]_vars

----------------------------------------------------------------------------
(* Properties of the scan and the rewrite pass, checked under SpecLine     *)

InputLines == read_lines(input, <<>>)

Scanned == pc \in {"fix", "rescan", "refix", "done"}
Rewritten == pc \in {"rescan", "refix", "done"}

\* C1. Post-fix compliance: for every Config of Configs and every file, when
\* the rewrite pass has run over the file and check_file has scanned what it
\* wrote under the same Config, the scan counts no fixable error (it may
\* count unfixable ones).
C1_PostFixCompliance ==
    pc \in {"refix", "done"} => rescan.fixable_errors = 0

\* a file with fixable errors was rewritten, and the scan of the result
\* counts none but still counts an unfixable one
C1_Witness ==
    /\ pc = "refix"
    /\ SumField(scan, "fixable_errors") > 0
    /\ output # input
    /\ rescan.fixable_errors = 0
    /\ rescan.unfixable_errors > 0

\* C2. Idempotence: for every Config of Configs and every file, the rewrite
\* pass over its own output writes the same bytes, and every line fix_line
\* returned is returned unchanged by fix_line.
C2_Idempotence ==
    /\ pc = "done" => output2 = output
    /\ Rewritten =>
         \A i \in 1..Len(fixed) :
            LET again == fix_line(config, fixed[i].line, overflow_checks)
            IN  ~again.panic => again.line = fixed[i].line

\* the first pass changed the file and the second pass changed nothing
C2_Witness ==
    /\ pc = "done"
    /\ output # input
    /\ output2 = output

UnfixableTags == {"tabs after other characters", "line too long"}

TagSet(r) == {r.tags[k] : k \in 1..Len(r.tags)}

\* C3. Unfixable violations are only reported: a line on which check_line
\* counts no fixable error is returned by fix_line byte for byte, without a
\* tag when it counts no unfixable error either, and with no other tag than
\* "tabs after other characters" and "line too long" otherwise.  (Stated for
\* the Configs of positive tab_size.)
C3_UnfixableUntouched ==
    (Rewritten /\ config.tab_size >= 1) =>
        \A i \in 1..Len(scan) :
            scan[i].fixable_errors = 0 =>
                /\ fixed[i].line = InputLines[i]
                /\ TagSet(fixed[i]) \subseteq UnfixableTags
                /\ scan[i].unfixable_errors = 0 => fixed[i].tags = <<>>

HasTag(r, t) == t \in TagSet(r)

FixTags(r) == {k \in 1..Len(r.tags) : r.tags[k] \notin UnfixableTags}

\* C7. Classifier/fixer agreement: on a line with a violation the rules
\* that fire in check_line are the ones fix_line tags, the two line-ending
\* tags never come together, and the fixable errors counted are as many as
\* the fix tags.  (Stated for the lines that end in "\n" and the Configs of
\* positive tab_size.)
C7_Agreement ==
    (Rewritten /\ config.tab_size >= 1) =>
        \A i \in 1..Len(scan) :
            (/\ scan[i].fixable_errors + scan[i].unfixable_errors > 0
             /\ InputLines[i][Len(InputLines[i])] = LF) =>
                /\ scan[i].mac <=> HasTag(fixed[i], "fixed mac line ending")
                /\ scan[i].windows <=> HasTag(fixed[i], "fixed windows line ending")
                /\ ~(HasTag(fixed[i], "fixed mac line ending")
                       /\ HasTag(fixed[i], "fixed windows line ending"))
                /\ scan[i].expand <=> HasTag(fixed[i], "expanded tabs")
                /\ scan[i].tabs <=> HasTag(fixed[i], "tabs after other characters")
                /\ scan[i].trailing <=> HasTag(fixed[i], "removed whitespace from end")
                /\ scan[i].fixable_errors = Cardinality(FixTags(fixed[i]))

\* the terminator of a line: "\r\n", "\n", a lone "\r", or none
TerminatorLen(s) ==
    IF ends_with_crlf(s) THEN 2
    ELSE IF s # <<>> /\ s[Len(s)] \in {LF, CR} THEN 1
    ELSE 0

RECURSIVE Columns(_, _)
Columns(s, tab) ==
    IF s = <<>> THEN 0
    ELSE (IF Head(s) = TAB THEN tab ELSE 1) + Columns(Tail(s), tab)

VisibleWidth(s, tab) == Columns(DropLast(s, TerminatorLen(s)), tab)

\* C8. Over-length rule: with tab_size >= 1, check_line counts the
\* over-length violation exactly when the characters of the line without
\* its terminator, a tab counting tab_size columns, are more than
\* line_length.
C8_OverLength ==
    (Scanned /\ config.tab_size >= 1) =>
        \A i \in 1..Len(scan) :
            scan[i].long <=>
                VisibleWidth(InputLines[i], config.tab_size) > config.line_length

----------------------------------------------------------------------------
(* SpecConfig: config_from_modeline applied to every short modeline text;  *)
(* SpecModeline: find_modeline and the choice of the Config (do_file,      *)
(* lines 623-653) applied to every short file of the lines below           *)

MaxParts == 3
MaxModelineLines == 3

Parts ==
    { <<"e", "t">>,
      <<"n", "o", "e", "t">>,
      <<"t", "s", "=", "2">>,
      <<"t", "s", "=", "8">>,
      <<"t", "s", "=", "0">>,
      <<"t", "s", "=", "x">>,
      <<"t", "s", "=">>,
      <<"s", "w", "=", "4">>,
      <<"a", "a", EAcute>>,
      <<>> }

RECURSIVE join(_)
join(ps) ==
    IF Len(ps) = 1 THEN Head(ps) ELSE Head(ps) \o <<SP>> \o join(Tail(ps))

Modelines == {join(ps) : ps \in UNION {[1..k -> Parts] : k \in 1..MaxParts}}

\* find_modeline and config_from_modeline do no arithmetic: the build
\* profile makes no difference to them
InitConfig ==
    /\ overflow_checks = TRUE
    /\ modeline \in {Some(m) : m \in Modelines \ {<<>>}} \cup {None}
    /\ pc = "resolve"
    /\ config = DEFAULT_CONFIG
    /\ input = <<>>
    /\ scan = <<>>
    /\ fixed = <<>>
    /\ output = NoText
    /\ rescan = NoResult
    /\ output2 = NoText
    /\ NoFiles

\* do_file, lines 643-653
ResolveConfig ==
    /\ pc = "resolve"
    /\ LET r == IF modeline.some THEN config_from_modeline(modeline.text)
                ELSE [panic |-> FALSE, config |-> DEFAULT_CONFIG]
       IN  IF r.panic
           THEN pc' = "panicked" /\ config' = config
           ELSE pc' = "resolved" /\ config' = r.config
    /\ UNCHANGED <<overflow_checks, input, lineVars, modeline, fileVars>>

NextConfig == ResolveConfig

SpecConfig == InitConfig /\ [][NextConfig]_vars

ModelineLines ==
    { <<SP, "v", "i", ":", SP, "t", "s", "=", "2">>,
      <<"#", SP, "v", "i", "m", ":", SP, "t", "s", "=", "8">>,
      <<SP, "v", "i", "m", ":", SP, "n", "o", "e", "t", SP, "t", "s", "=", "8">>,
      <<SP, "v", "i", "m", ":", "t", "s", "=", "2">>,
      <<SP, "v", "i", ":", SP>>,
      <<"a", SP, "e", "x", ":", SP, "e", "t", SP, "v", "i", ":", SP, "t", "s", "=", "2">> }

Terminators == {<<LF>>, <<CR, LF>>}

RECURSIVE Flatten(_)
Flatten(ss) == IF ss = <<>> THEN <<>> ELSE Head(ss) \o Flatten(Tail(ss))

ModelineFiles ==
    { Flatten(ls) :
        ls \in UNION {[1..k -> {l \o t : l \in ModelineLines, t \in Terminators}] :
                        k \in 0..MaxModelineLines} }

InitModeline ==
    /\ overflow_checks = TRUE
    /\ input \in ModelineFiles
    /\ pc = "find_modeline"
    /\ modeline = None
    /\ config = DEFAULT_CONFIG
    /\ scan = <<>>
    /\ fixed = <<>>
    /\ output = NoText
    /\ rescan = NoResult
    /\ output2 = NoText
    /\ NoFiles

\* do_file, lines 623-641, when no read fails
FindModeline ==
    /\ pc = "find_modeline"
    /\ modeline' = find_modeline(input)
    /\ pc' = "resolve"
    /\ UNCHANGED <<overflow_checks, config, input, lineVars, fileVars>>

NextModeline == FindModeline \/ ResolveConfig

SpecModeline == InitModeline /\ [][NextModeline]_vars

----------------------------------------------------------------------------
(* Properties of the choice of the Config, checked under SpecConfig and    *)
(* SpecModeline                                                            *)

\* what a part "ts=<N>" asks for: N, when N parses
RECURSIVE LastTabSize(_, _)
LastTabSize(parts, size) ==
    IF parts = <<>> THEN size
    ELSE LET p == Head(parts)
             n == parse_usize(SubSeq(p, Len(TS_PREFIX) + 1, Len(p)))
         IN  LastTabSize(Tail(parts),
                 IF starts_with_at(p, 1, TS_PREFIX) /\ n.ok THEN n.value ELSE size)

RECURSIVE LastExpand(_, _)
LastExpand(parts, expand) ==
    IF parts = <<>> THEN expand
    ELSE LastExpand(Tail(parts),
             IF Head(parts) = <<"e", "t">> THEN TRUE
             ELSE IF Head(parts) = <<"n", "o", "e", "t">> THEN FALSE
             ELSE expand)

\* C5. Override resolution of ts=<N>: the Config resolved from an override
\* has the tab_size of its last part "ts=<N>" whose N parses, whatever the
\* other parts are, and the default when there is none; the other fields
\* are what the other parts make them.
C5_TabSizeOverride ==
    (pc = "resolved" /\ modeline.some) =>
        LET parts == split(modeline.text, <<>>)
        IN  /\ config.tab_size = LastTabSize(parts, DEFAULT_CONFIG.tab_size)
            /\ config.expand_tabs = LastExpand(parts, DEFAULT_CONFIG.expand_tabs)
            /\ config.line_length = DEFAULT_CONFIG.line_length

FileLines == lines(input, <<>>)

\* the place of the last line of ls that matches, 0 when none does
LastMatching(ls) ==
    LET matching == {i \in 1..Len(ls) : captures(ls[i]).some}
    IN  IF matching = {} THEN 0
        ELSE CHOOSE i \in matching : \A j \in matching : j <= i

TS2 == <<"t", "s", "=", "2">>
TS8 == <<"t", "s", "=", "8">>

\* C6. Modeline precedence: find_modeline returns the text captured on the
\* last line of the file that matches, None when no line matches; the
\* Config is resolved from that text alone, so that tab_size is 8 when the
\* last modeline is "ts=8", whatever the earlier ones set.
C6_LastModelineWins ==
    pc \in {"resolve", "resolved"} =>
        LET ls == FileLines
            last == LastMatching(ls)
            text == captures(ls[last]).text
        IN  /\ last = 0 => modeline = None
            /\ last > 0 => modeline = Some(text)
            /\ (pc = "resolved" /\ last = 0) => config = DEFAULT_CONFIG
            /\ (pc = "resolved" /\ last > 0) =>
                  /\ config = config_from_modeline(text).config
                  /\ text = TS8 => config.tab_size = 8

\* a file with a modeline "ts=2" and a later, last modeline "ts=8"
C6_Witness ==
    /\ pc = "resolved"
    /\ LET ls == FileLines
           last == LastMatching(ls)
       IN  /\ last > 0
           /\ captures(ls[last]).text = TS8
           /\ \E i \in 1..(last - 1) :
                captures(ls[i]).some /\ captures(ls[i]).text = TS2
    /\ config.tab_size = 8

----------------------------------------------------------------------------
(* Spec: main and do_file over a few files, every I/O call of do_file      *)
(* either succeeding or failing                                            *)

NumFiles == 2

FileContents ==
    { <<"a", LF>>,
      <<"a", SP, LF>>,
      <<"a", TAB, "b", LF>>,
      <<SP, "v", "i", ":", SP, "e", "t", LF, TAB, "a", CR, LF>>,
      <<SP, "v", "i", ":", SP, "t", "s", "=", "0", LF>>,
      <<"a", SP, LF, SP, TAB, "b">>,
      <<EAcute, LF>> }

\* the mode of the files given, and the mode File::create gives a new file
OriginalMode == "rwxr-xr-x"
CreateMode == "rw-r--r--"

NoFile == [bytes |-> NoText, mode |-> "-"]

NoHistory ==
    [called |-> FALSE, scan |-> NoResult, created |-> FALSE, rewritten |-> FALSE,
     sunk |-> FALSE, perm_copied |-> FALSE, renamed |-> FALSE]

locals == <<input, modeline, config, check_result, metadata>>

Init ==
    /\ overflow_checks \in BOOLEAN
    /\ disk \in [1..NumFiles -> [bytes : FileContents, mode : {OriginalMode}]]
    /\ orig = disk
    /\ tmp = [i \in 1..NumFiles |-> NoFile]
    /\ idx = 1
    /\ pc = "main"
    /\ config = DEFAULT_CONFIG
    /\ modeline = None
    /\ input = <<>>
    /\ check_result = NoResult
    /\ metadata = "-"
    /\ error = [i \in 1..NumFiles |-> "-"]
    /\ history = [i \in 1..NumFiles |-> NoHistory]
    /\ underflow = FALSE
    /\ scan = <<>>
    /\ fixed = <<>>
    /\ output = NoText
    /\ rescan = NoResult
    /\ output2 = NoText

\* the locals of do_file are dropped when it ends
DropLocals ==
    /\ input' = <<>>
    /\ modeline' = None
    /\ config' = DEFAULT_CONFIG
    /\ check_result' = NoResult
    /\ metadata' = "-"

\* do_file goes on to its next step
Goto(label) == pc' = label /\ idx' = idx /\ error' = error

\* do_file returns; the loop of main takes the next argument
Return == pc' = "main" /\ idx' = idx + 1 /\ error' = error /\ DropLocals

FailFatal(message) ==
    /\ error' = [error EXCEPT ![idx] = message]
    /\ pc' = "exit"
    /\ idx' = idx
    /\ DropLocals

\* an Err arm of do_file: the message, then return
Fail(message) ==
    /\ error' = [error EXCEPT ![idx] = message]
    /\ pc' = "main"
    /\ idx' = idx + 1
    /\ DropLocals

\* a panic ends the process
Panic == pc' = "panicked" /\ idx' = idx /\ error' = error /\ DropLocals

Note(field, value) == history' = [history EXCEPT ![idx][field] = value]

needs_rewrite_any(r) == r.fixable_errors + r.unfixable_errors > 0

\* the test of line 726
needs_rewrite(r) == r.fixable_errors > 0

\* the test of lines 683-684
nothing_found(r) == r.fixable_errors = 0 /\ r.unfixable_errors = 0

\* main, lines 864-869: the next argument, if any
MainNext ==
    /\ pc = "main"
    /\ idx <= NumFiles
    /\ pc' = "open"
    /\ Note("called", TRUE)
    /\ UNCHANGED <<overflow_checks, lineVars, locals, idx, disk, tmp, error, orig,
                   underflow>>

MainExit ==
    /\ pc = "main"
    /\ idx > NumFiles
    /\ pc' = "exit"
    /\ UNCHANGED <<overflow_checks, lineVars, locals, fileVars>>

\* lines 601-619
Open ==
    /\ pc = "open"
    /\ \/ /\ Goto("find_modeline")
          /\ input' = disk[idx].bytes
          /\ UNCHANGED <<modeline, config, check_result, metadata>>
       \/ Fail("Error opening")
    /\ UNCHANGED <<overflow_checks, lineVars, disk, tmp, history, orig, underflow>>

\* lines 623-653
Modeline ==
    /\ pc = "find_modeline"
    /\ \/ Fail("Error reading")
       \/ LET m == find_modeline(input)
              r == IF m.some THEN config_from_modeline(m.text)
                   ELSE [panic |-> FALSE, config |-> DEFAULT_CONFIG]
          IN  IF r.panic
              THEN Panic
              ELSE /\ Goto("seek_scan")
                   /\ modeline' = m
                   /\ config' = r.config
                   /\ UNCHANGED <<input, check_result, metadata>>
    /\ UNCHANGED <<overflow_checks, lineVars, disk, tmp, history, orig, underflow>>

\* lines 657-674
SeekScan ==
    /\ pc = "seek_scan"
    /\ \/ Goto("check_file") /\ UNCHANGED locals
       \/ Fail("Error reading")
    /\ UNCHANGED <<overflow_checks, lineVars, disk, tmp, history, orig, underflow>>

\* lines 676-703
CheckFile ==
    /\ pc = "check_file"
    /\ \/ Fail("Error reading") /\ UNCHANGED <<history, underflow>>
       \/ LET r == check_file(config, input, overflow_checks)
              res == [fixable_errors |-> r.fixable_errors,
                      unfixable_errors |-> r.unfixable_errors]
          IN  /\ underflow' = (underflow \/ r.underflow)
              /\ IF r.panic THEN Panic /\ history' = history
                 ELSE /\ Note("scan", res)
                      /\ IF nothing_found(res) THEN Return
                         ELSE /\ Goto("seek_fix")
                              /\ check_result' = res
                              /\ UNCHANGED <<input, modeline, config, metadata>>
    /\ UNCHANGED <<overflow_checks, lineVars, disk, tmp, orig>>

\* lines 707-726
SeekFix ==
    /\ pc = "seek_fix"
    /\ \/ /\ Goto(IF needs_rewrite(check_result) THEN "create" ELSE "fix_sink")
          /\ UNCHANGED locals
       \/ Fail("Error reading")
    /\ UNCHANGED <<overflow_checks, lineVars, disk, tmp, history, orig, underflow>>

\* lines 728-751
Create ==
    /\ pc = "create"
    /\ \/ /\ Goto("fix_file")
          /\ tmp' = [tmp EXCEPT ![idx] = [bytes |-> <<>>, mode |-> CreateMode]]
          /\ Note("created", TRUE)
          /\ UNCHANGED locals
       \/ Fail("Error creating") /\ UNCHANGED <<tmp, history>>
    /\ UNCHANGED <<overflow_checks, lineVars, disk, orig, underflow>>

\* the numbers of lines fix_file can have handled: none of them panics
Handled(rs) == {k \in 0..Len(rs) : \A j \in 1..k : ~rs[j].panic}

\* lines 753-773: a read or a write may fail after any number of lines
FixFile ==
    /\ pc = "fix_file"
    /\ LET rs == fix_lines(config, input, overflow_checks)
           r == fix_file(config, input, overflow_checks)
       IN  \/ \E k \in Handled(rs) \ {Len(rs)} :
                /\ Fail("Error fixing")
                /\ tmp' = [tmp EXCEPT ![idx].bytes = Concat(SubSeq(rs, 1, k))]
                /\ underflow' = (underflow \/ Underflowed(SubSeq(rs, 1, k)))
                /\ history' = history
           \/ /\ underflow' = (underflow \/ r.underflow)
              /\ IF r.panic
                 THEN /\ Panic
                      /\ tmp' = [tmp EXCEPT ![idx].bytes =
                                    Concat(SubSeq(rs, 1,
                                        CHOOSE k \in Handled(rs) : k + 1 \notin Handled(rs)))]
                      /\ history' = history
                 ELSE /\ Goto("metadata")
                      /\ tmp' = [tmp EXCEPT ![idx].bytes = r.bytes]
                      /\ Note("rewritten", TRUE)
                      /\ UNCHANGED locals
    /\ UNCHANGED <<overflow_checks, lineVars, disk, orig>>

\* lines 775-793
Metadata ==
    /\ pc = "metadata"
    /\ \/ /\ Goto("set_permissions")
          /\ metadata' = disk[idx].mode
          /\ UNCHANGED <<input, modeline, config, check_result>>
       \/ Fail("Error reading permissions")
    /\ UNCHANGED <<overflow_checks, lineVars, disk, tmp, history, orig, underflow>>

\* lines 795-813
SetPermissions ==
    /\ pc = "set_permissions"
    /\ \/ /\ Goto("rename")
          /\ tmp' = [tmp EXCEPT ![idx].mode = metadata]
          /\ Note("perm_copied", TRUE)
          /\ UNCHANGED locals
       \/ Fail("Error setting permissions") /\ UNCHANGED <<tmp, history>>
    /\ UNCHANGED <<overflow_checks, lineVars, disk, orig, underflow>>

\* lines 815-832: the temporary file replaces the original, or the message
\* is written; do_file ends either way
Rename ==
    /\ pc = "rename"
    /\ \/ /\ Return
          /\ disk' = [disk EXCEPT ![idx] = tmp[idx]]
          /\ tmp' = [tmp EXCEPT ![idx] = NoFile]
          /\ Note("renamed", TRUE)
       \/ Fail("Error renaming") /\ UNCHANGED <<disk, tmp, history>>
    /\ UNCHANGED <<overflow_checks, lineVars, orig, underflow>>

\* lines 836-856: fix_file into io::sink ()
FixSink ==
    /\ pc = "fix_sink"
    /\ LET rs == fix_lines(config, input, overflow_checks)
           r == fix_file(config, input, overflow_checks)
       IN  \/ \E k \in Handled(rs) \ {Len(rs)} :
                /\ Fail("Error fixing")
                /\ underflow' = (underflow \/ Underflowed(SubSeq(rs, 1, k)))
                /\ history' = history
           \/ /\ underflow' = (underflow \/ r.underflow)
              /\ IF r.panic
                 THEN Panic /\ history' = history
                 ELSE Return /\ Note("sunk", TRUE)
    /\ UNCHANGED <<overflow_checks, lineVars, disk, tmp, orig>>

Next ==
    \/ MainNext
    \/ MainExit
    \/ Open
    \/ Modeline
    \/ SeekScan
    \/ CheckFile
    \/ SeekFix
    \/ Create
    \/ FixFile
    \/ Metadata
    \/ SetPermissions
    \/ Rename
    \/ FixSink

Spec == Init /\ [][Next]_vars

----------------------------------------------------------------------------
(* Properties of do_file and main, checked under Spec                      *)

FileIds == 1..NumFiles

ScannedFile(i) == history[i].scan # NoResult

\* C4. No-touch guarantee: a file whose scan counted no fixable error gets
\* no temporary file, no permission change and no rename, and keeps its
\* bytes; a temporary file exists or the original differs only when the scan
\* counted a fixable error.
C4_NoTouch ==
    \A i \in FileIds :
        /\ (ScannedFile(i) /\ history[i].scan.fixable_errors = 0) =>
              /\ ~history[i].created
              /\ tmp[i] = NoFile
              /\ ~history[i].perm_copied
              /\ ~history[i].renamed
              /\ disk[i] = orig[i]
        /\ (history[i].created \/ tmp[i] # NoFile \/ disk[i] # orig[i]) =>
              /\ ScannedFile(i)
              /\ history[i].scan.fixable_errors > 0

\* a file with only unfixable errors went through the sink pass and is as
\* it was, and a file with fixable errors was replaced
C4_Witness ==
    \E i \in FileIds : \E j \in FileIds :
        /\ history[i].scan.fixable_errors = 0
        /\ history[i].scan.unfixable_errors > 0
        /\ history[i].sunk
        /\ disk[i] = orig[i]
        /\ history[j].renamed
        /\ disk[j] # orig[j]

\* C9. Per-file failure isolation: a step of do_file that fails writes the
\* message and returns with the original as it was, and main goes on to the
\* next argument; main ends only when do_file was called for every argument;
\* the original changes only in the rename, after the rewrite pass and the
\* permission copy succeeded.
C9_FailureIsolation ==
    [][ /\ \A i \in FileIds :
             error'[i] # error[i] =>
                /\ i = idx
                /\ disk' = disk
                /\ disk[i] = orig[i]
                /\ pc' = "main"
                /\ idx' = idx + 1
        /\ pc' = "exit" => \A i \in FileIds : history'[i].called
        /\ \A i \in FileIds :
             disk'[i] # disk[i] =>
                /\ pc = "rename"
                /\ i = idx
                /\ history[i].rewritten
                /\ history[i].perm_copied
                /\ disk'[i] = tmp[i]
      ]_vars

\* do_file failed on one file, which is as it was, and a later file was
\* still rewritten and replaced
C9_Witness ==
    \E i \in FileIds : \E j \in FileIds :
        /\ i < j
        /\ error[i] # "-"
        /\ disk[i] = orig[i]
        /\ history[j].renamed
        /\ disk[j] # orig[j]
        /\ disk[j].mode = orig[j].mode
        /\ pc = "exit"

\* C10. No arithmetic underflow in visible length: whatever modeline the
\* Config is resolved from and whatever line is read, no step of
\* len + tabs * (tab_size - 1) - 1 goes below zero.
C10_NoUnderflow == ~underflow

====
